---------------------------- MODULE Spec2Model ----------------------------
(***************************************************************************)
(* A model of polymarket-5m-arb-monitor/scripts/monitor_btc_5m_arb.py:     *)
(* the KNN probability estimator, the edge/gate evaluator, and the polling *)
(* loop with its PID-file single-instance guard.                           *)
(*                                                                         *)
(* Numbers.  The script computes with Python floats.  Here a close is an   *)
(* integer number of price ticks and every ratio of closes is an exact     *)
(* rational <<num, den>>, so comparisons are those of the exact values.    *)
(* Market probabilities and the fee rate are integers in units of 1/PScale.*)
(***************************************************************************)
EXTENDS Integers, Sequences, FiniteSets, TLC

VARIABLES
    closes,      \* estimator harness: the price series passed in
    neighbors,   \* estimator harness: the neighbors argument
    knn,         \* estimator harness: outcome of estimate_up_probability_knn
    gin,         \* gate harness: the arguments of build_opportunity
    opp,         \* gate harness: the Opportunity built, or NoOpportunity
    qin,         \* quote harness: the market passed to extract_up_down_prob
    qout,        \* quote harness: what extract_up_down_prob did with it
    pidFile,     \* the lock file: <<>> when absent, <<pid>> otherwise
    pc,          \* per invocation: where it is in main / stop_monitor
    args,        \* per invocation: the parsed command line
    existing_pid,\* per invocation: what read_pid returned (<<>> for None)
    rounds,      \* per invocation: main's rounds counter
    last_trade_ts, \* per invocation: <<>> for None, <<t>> otherwise
    err,         \* per invocation: the exception caught in the last round
    exit_code,   \* per invocation: <<>> while running, <<status>> once exited
    exit_reason, \* per invocation: which exit was taken
    logBy,       \* per invocation: the entries it appended to the jsonl log
    stop_tries,  \* per invocation: polls of stop_monitor that found the
                 \* process still listed
    orders,      \* the orders accepted by the trading client
    bars,        \* per invocation: <<n>> when the last round asked for the
                 \* price history and the source returned n closes, <<>>
                 \* when it did not ask
    now          \* per invocation: time.time(), in seconds since it started

knnVars == <<closes, neighbors, knn>>
gateVars == <<gin, opp>>
quoteVars == <<qin, qout>>
aloneVars == <<knnVars, gateVars, quoteVars>>
monVars == <<pidFile, pc, args, existing_pid, rounds, last_trade_ts, err,
             exit_code, exit_reason, logBy, stop_tries, orders, bars, now>>
vars == <<closes, neighbors, knn, gin, opp, qin, qout, pidFile, pc, args, existing_pid,
          rounds, last_trade_ts, err, exit_code, exit_reason, logBy,
          stop_tries, orders, bars, now>>

-----------------------------------------------------------------------------
(* Bounds of the model *)

\* longest price series drawn (60 closes are needed for 50 training pairs)
MaxLen == 64

\* market probabilities and fee rates are multiples of 1/PScale
PScale == 20

\* largest fee rate drawn, in units of 1/PScale
MaxFee == 3

\* largest number of rounds one invocation runs (caps --polls 0)
MaxRounds == 3

-----------------------------------------------------------------------------
(* Rationals <<num, den>> with den > 0 *)

Abs(x) == IF x < 0 THEN -x ELSE x

RLess(a, b) == a[1] * b[2] < b[1] * a[2]

REq(a, b) == a[1] * b[2] = b[1] * a[2]

RLeq(a, b) == a[1] * b[2] <= b[1] * a[2]

\* Python's min(a, b): b only when b < a
RMin(a, b) == IF RLess(b, a) THEN b ELSE a

\* Python's max(a, b): b only when b > a
RMax(a, b) == IF RLess(a, b) THEN b ELSE a

-----------------------------------------------------------------------------
(* estimate_up_probability_knn *)

\* the look-back and look-ahead distance of the sliding window
Horizon == 5

\* fewer valid pairs than this is the neutral fallback
MinPairs == 50

\* floor of the neighbor count k
MinK == 10

\* the (feature, label) pair of index i (1-based), closes[i-Horizon] > 0 and
\* closes[i] > 0: f = cur / prev - 1, y = 1 if nxt / cur - 1 > 0 else 0
PairAtMut(c, i) ==
    LET prev == c[i - Horizon]
        cur == c[i]
        nxt == c[i + Horizon]
    IN  [f |-> <<cur - prev, prev>>, y |-> IF nxt - cur >= 0 THEN 1 ELSE 0]
PairAt(c, i) ==
    LET prev == c[i - Horizon]
        cur == c[i]
        nxt == c[i + Horizon]
    IN  [f |-> <<cur - prev, prev>>, y |-> IF nxt - cur > 0 THEN 1 ELSE 0]

\* the loop "for t in range(5, len(closes) - 5)" from index i on (i = t + 1)
RECURSIVE PairsFrom(_, _)
PairsFrom(c, i) ==
    IF i > Len(c) - Horizon THEN <<>>
    ELSE IF c[i - Horizon] <= 0 \/ c[i] <= 0 THEN PairsFrom(c, i + 1)
    ELSE <<PairAt(c, i)>> \o PairsFrom(c, i + 1)

Pairs(c) == PairsFrom(c, Horizon + 1)

\* the fallback test "len(features) < 50"
IsFallbackMut(n) == n < MinPairs - MinK
IsFallback(n) == n < MinPairs

\* |f - cur_ret| as a rational with a positive denominator
Dist(f, r) == <<Abs(f[1] * r[2] - r[1] * f[2]), Abs(f[2] * r[2])>>

\* position of pair i after the stable sort by distance (0-based)
RankMut(d, i) ==
    Cardinality({j \in 1..Len(d) :
        RLess(d[j], d[i]) \/ (REq(d[j], d[i]) /\ j > i)})
Rank(d, i) ==
    Cardinality({j \in 1..Len(d) :
        RLess(d[j], d[i]) \/ (REq(d[j], d[i]) /\ j < i)})

\* k = max(10, min(neighbors, len(pairs)))
NeighborCount(nb, n) ==
    LET m == IF n < nb THEN n ELSE nb
    IN  IF m > MinK THEN m ELSE MinK

\* indices of pairs[:k] after the sort
Nearest(d, k) == {i \in 1..Len(d) : Rank(d, i) < k}

\* max(0.01, min(0.99, blended))
ClipMut(q) == q
Clip(q) == RMax(<<1, 100>>, RMin(<<99, 100>>, q))

\* the neutral result returned when history is insufficient
FallbackResultMut(n) ==
    [status |-> "returned", prob |-> <<1, 2>>, sample_count |-> 0,
     current_5m_ret |-> <<0, 1>>, uncond_up_prob |-> <<1, 2>>]
FallbackResult(n) ==
    [status |-> "returned", prob |-> <<1, 2>>, sample_count |-> n,
     current_5m_ret |-> <<0, 1>>, uncond_up_prob |-> <<1, 2>>]

RaisedResult ==
    [status |-> "raised", prob |-> <<0, 1>>, sample_count |-> 0,
     current_5m_ret |-> <<0, 1>>, uncond_up_prob |-> <<0, 1>>]

NoResult ==
    [status |-> "none", prob |-> <<0, 1>>, sample_count |-> 0,
     current_5m_ret |-> <<0, 1>>, uncond_up_prob |-> <<0, 1>>]

\* the whole function; closes[-6] = 0 makes "closes[-1] / closes[-6]" raise
\* ZeroDivisionError
EstimateUpProbabilityKnn(c, nb) ==
    LET pairs == Pairs(c)
        n == Len(pairs)
    IN  IF IsFallback(n) THEN FallbackResult(n)
        ELSE IF c[Len(c) - Horizon] = 0 THEN RaisedResult
        ELSE
          LET base == c[Len(c) - Horizon]
              cur_ret == IF base > 0 THEN <<c[Len(c)] - base, base>>
                         ELSE <<base - c[Len(c)], -base>>
              d == [i \in 1..n |-> Dist(pairs[i].f, cur_ret)]
              k == NeighborCount(nb, n)
              s == Cardinality({i \in Nearest(d, k) : pairs[i].y = 1})
              S == Cardinality({i \in 1..n : pairs[i].y = 1})
              \* 0.7 * (s / k) + 0.3 * (S / n)
              blended == <<7 * s * n + 3 * S * k, 10 * k * n>>
          IN  [status |-> "returned", prob |-> Clip(blended),
               sample_count |-> n, current_5m_ret |-> cur_ret,
               uncond_up_prob |-> <<S, n>>]

-----------------------------------------------------------------------------
(* The price series the estimator is exercised on *)

Shapes == {"up", "down", "flat", "wave", "drift"}

WavePattern == <<0, 3, 1, 4, 2, 5, 3>>

\* close number i (1-based) of a series of the given shape
ShapeClose(shape, i) ==
    CASE shape = "up" -> 100 + i
      [] shape = "down" -> 170 - i
      [] shape = "flat" -> 100
      [] shape = "wave" -> 100 + WavePattern[(i % 7) + 1]
      [] OTHER -> 100 + (i \div 4) + WavePattern[((3 * i) % 7) + 1]

\* offsets from the end at which one close is replaced by a non-positive
\* value; -1 replaces none.  Offset 5 is closes[-6].
HoleOffsets == {-1, 0, 5, 6, 20}

BadCloses == {0, -1}

MakeSeries(shape, n, h, v) ==
    [i \in 1..n |-> IF h >= 0 /\ i = n - h THEN v ELSE ShapeClose(shape, i)]

SeriesSet ==
    {MakeSeries(s, n, h, v) :
        s \in Shapes, n \in 0..MaxLen, h \in HoleOffsets, v \in BadCloses}

NeighborSet == {-3, 0, 1, 10, 25, 80}

-----------------------------------------------------------------------------
(* The estimator called on its own *)

KnnInit ==
    /\ closes \in SeriesSet
    /\ neighbors \in NeighborSet
    /\ knn = NoResult

KnnIdle ==
    /\ closes = <<>>
    /\ neighbors = 0
    /\ knn = NoResult

Estimate ==
    /\ knn.status = "none"
    /\ knn' = EstimateUpProbabilityKnn(closes, neighbors)
    /\ UNCHANGED <<closes, neighbors, gateVars, quoteVars, monVars>>

-----------------------------------------------------------------------------
(* build_opportunity *)

\* best_side = "UP" if edge_up >= edge_down else "DOWN"
BestSideMut(edge_up, edge_down) == IF edge_up > edge_down THEN "UP" ELSE "DOWN"
BestSide(edge_up, edge_down) == IF edge_up >= edge_down THEN "UP" ELSE "DOWN"

\* signal = "ARBITRAGE" if best_edge > fee_rate else "NO_EDGE"; both numbers
\* are numerators over the same positive denominator
SignalMut(best_edge, fee_rate) ==
    IF best_edge >= fee_rate THEN "ARBITRAGE" ELSE "NO_EDGE"
Signal(best_edge, fee_rate) ==
    IF best_edge > fee_rate THEN "ARBITRAGE" ELSE "NO_EDGE"

\* up_prob_model is a rational <<n, d>>; up_prob_pm, down_prob_pm and fee_rate
\* count units of 1/PScale; the edges are numerators over d * PScale
BuildOpportunity(up_prob_pm, down_prob_pm, up_prob_model, fee_rate) ==
    LET n == up_prob_model[1]
        d == up_prob_model[2]
        down_prob_model == <<d - n, d>>
        edge_up == n * PScale - up_prob_pm * d
        edge_down == down_prob_model[1] * PScale - down_prob_pm * d
        best_side == BestSide(edge_up, edge_down)
        best_edge == IF best_side = "UP" THEN edge_up ELSE edge_down
    IN  [signal |-> Signal(best_edge, fee_rate * d),
         best_side |-> best_side,
         best_edge |-> <<best_edge, d * PScale>>,
         fee_rate |-> fee_rate,
         pm_up_prob |-> up_prob_pm,
         pm_down_prob |-> down_prob_pm,
         model_up_prob |-> up_prob_model,
         model_down_prob |-> down_prob_model]

NoOpportunity ==
    [signal |-> "NONE", best_side |-> "NONE", best_edge |-> <<0, 1>>,
     fee_rate |-> 0, pm_up_prob |-> 0, pm_down_prob |-> 0,
     model_up_prob |-> <<0, 1>>, model_down_prob |-> <<0, 1>>]

-----------------------------------------------------------------------------
(* extract_up_down_prob *)

\* str(x).strip().lower() on the outcome labels that occur
LowerStrip(label) ==
    CASE label \in {"Up", "UP", "up", " Up "} -> "up"
      [] label \in {"Yes", "yes"} -> "yes"
      [] label \in {"Down", "DOWN", "down"} -> "down"
      [] label \in {"No", "no"} -> "no"
      [] OTHER -> "other"

\* float(x), 0.0 when x does not parse; a raw price is [num, v], v counting
\* units of 1/PScale
ParsePrice(x) == IF x.num THEN x.v ELSE 0

\* the first index (1-based) whose label is in the set, 0 for None
FirstIndexMut(outcomes, labels) ==
    LET hits == {i \in 1..Len(outcomes) : outcomes[i] \in labels}
    IN  IF hits = {} THEN 0 ELSE CHOOSE i \in hits : \A j \in hits : i >= j
FirstIndex(outcomes, labels) ==
    LET hits == {i \in 1..Len(outcomes) : outcomes[i] \in labels}
    IN  IF hits = {} THEN 0 ELSE CHOOSE i \in hits : \A j \in hits : i <= j

\* max(0.0, min(1.0, x)) in units of 1/PScale
Clip01(x) == IF x < 0 THEN 0 ELSE IF x > PScale THEN PScale ELSE x

QuoteError == [err |-> TRUE, up |-> 0, down |-> 0, up_idx |-> 0, down_idx |-> 0]

\* market: [ok, outcomes, prices]; raises (err) on fewer than two prices and
\* on an index past the end of the price list; up_idx and down_idx are the
\* positions read, counted from 1
ExtractUpDownProb(market) ==
    LET outcomes == [i \in 1..Len(market.outcomes) |-> LowerStrip(market.outcomes[i])]
        prices == [i \in 1..Len(market.prices) |-> ParsePrice(market.prices[i])]
        up_found == FirstIndex(outcomes, {"up", "yes"})
        down_found == FirstIndex(outcomes, {"down", "no"})
        up_idx == IF up_found = 0 THEN 1 ELSE up_found
        down_idx == IF down_found # 0 THEN down_found
                    ELSE IF up_idx = 1 THEN 2 ELSE 1
    IN  IF Len(prices) < 2 THEN QuoteError
        ELSE IF up_idx > Len(prices) \/ down_idx > Len(prices) THEN QuoteError
        ELSE [err |-> FALSE, up |-> Clip01(prices[up_idx]),
              down |-> Clip01(prices[down_idx]),
              up_idx |-> up_idx, down_idx |-> down_idx]

\* the function called on its own: outcome labels as the API may spell them,
\* prices below, inside, at the ends of and above [0, 1], and one that does
\* not parse
LabelSet == {"Up", "yes", "DOWN", "No", "Other"}

RawPrices == {[num |-> TRUE, v |-> -3], [num |-> TRUE, v |-> 0],
              [num |-> TRUE, v |-> 7], [num |-> TRUE, v |-> PScale + 5],
              [num |-> FALSE, v |-> 9]}

SeqsUpTo(S, n) == UNION {[1..k -> S] : k \in 0..n}

NoQuote == [err |-> FALSE, up |-> -1, down |-> -1, up_idx |-> 0, down_idx |-> 0]

QuoteInit ==
    /\ qin \in [ok : {TRUE}, outcomes : SeqsUpTo(LabelSet, 3),
                 prices : SeqsUpTo(RawPrices, 3)]
    /\ qout = NoQuote

QuoteIdle ==
    /\ qin = [ok |-> TRUE, outcomes |-> <<>>, prices |-> <<>>]
    /\ qout = NoQuote

Extract ==
    /\ qout = NoQuote
    /\ qout' = ExtractUpDownProb(qin)
    /\ UNCHANGED <<qin, knnVars, gateVars, monVars>>

-----------------------------------------------------------------------------
(* fetch_alpaca_closes *)

\* fewer closes than this is an error of the fetcher
MinBars == 30

\* history: [ok, closes]; ok is FALSE when the request fails or returns no bars
FetchFailsMut(history) == ~history.ok
FetchFails(history) == ~history.ok \/ Len(history.closes) < MinBars

-----------------------------------------------------------------------------
(* maybe_auto_trade *)

\* round(qty, 6), quantities counting units of 1e-7: to the nearest multiple
\* of 10, a tie going to the even sixth decimal
Round6(q) ==
    LET lo == (q \div 10) * 10
        r == q % 10
    IN  IF r < 5 THEN lo
        ELSE IF r > 5 THEN lo + 10
        ELSE IF (q \div 10) % 2 = 0 THEN lo ELSE lo + 10

\* trade_notional_usd / spot in units of 1e-7; spot counts price ticks of
\* 1000 USD, notional counts USD
QtyToSell(notional, spot) == (notional * 10000) \div spot

NoTrade ==
    [enabled |-> FALSE, executed |-> FALSE, reason |-> "", side |-> "none",
     has_order_id |-> FALSE, sell_qty |-> 0]

TradeOut(executed, reason, side, qty) ==
    [enabled |-> TRUE, executed |-> executed, reason |-> reason, side |-> side,
     has_order_id |-> executed, sell_qty |-> qty]

\* lines 481-484: an exception of the trading client, caught
SubmitFailedMut == TradeOut(TRUE, "submit_failed", "none", 0)
SubmitFailed == TradeOut(FALSE, "submit_failed", "none", 0)

\* lines 420-422, 424-427, 430-432, 452-454, 457-459, 462-464: nothing is
\* submitted, for the reason given
SkippedMut(reason) == TradeOut(FALSE, "", "none", 0)
Skipped(reason) == TradeOut(FALSE, reason, "none", 0)

\* "(now_ts - last_trade_ts) < cooldown_seconds"; last_ts is last_trade_ts, <<>> for
\* None, <<t>> otherwise
InCooldownMut(last_ts, now_ts, cooldown_seconds) == FALSE
InCooldownEqMut(last_ts, now_ts, cooldown_seconds) ==
    /\ last_ts # <<>>
    /\ now_ts - last_ts[1] <= cooldown_seconds
InCooldown(last_ts, now_ts, cooldown_seconds) ==
    /\ last_ts # <<>>
    /\ now_ts - last_ts[1] < cooldown_seconds

\* result: [signal, best_side, spot]; broker: [positions_ok, qty, submit_ok],
\* what the trading client answers in this round
MaybeAutoTrade(result, broker, trade_notional_usd, last_ts, cooldown_seconds, now_ts) ==
    IF result.signal # "ARBITRAGE" THEN Skipped("signal_not_arbitrage")
    ELSE IF InCooldown(last_ts, now_ts, cooldown_seconds) THEN Skipped("cooldown")
    ELSE IF result.best_side \notin {"UP", "DOWN"} THEN Skipped("invalid_best_side")
    ELSE IF result.best_side = "UP"
        THEN IF broker.submit_ok THEN TradeOut(TRUE, "submitted", "buy", 0)
             ELSE SubmitFailed
    ELSE IF result.spot <= 0 THEN Skipped("invalid_spot_price")
    ELSE IF ~broker.positions_ok THEN SubmitFailed
    ELSE IF broker.qty <= 0 THEN Skipped("no_position_for_down_signal")
    ELSE
      LET qty_to_sell == QtyToSell(trade_notional_usd, result.spot)
          qty == IF qty_to_sell < broker.qty THEN qty_to_sell ELSE broker.qty
      IN  IF qty <= 0 THEN Skipped("qty_too_small")
          ELSE IF broker.submit_ok THEN TradeOut(TRUE, "submitted", "sell", Round6(qty))
          ELSE SubmitFailed

\* lines 619-620: last_trade_ts after the call, time.time() being now_ts
StampMut(trade, last_ts, now_ts) == <<now_ts>>
Stamp(trade, last_ts, now_ts) == IF trade.executed THEN <<now_ts>> ELSE last_ts

-----------------------------------------------------------------------------
(* One round of main's loop up to the trade: lines 592-607 *)

\* what the try body computes from the two fetches: the exception it raises
\* (err) or the Opportunity; spot is closes[-1]
Analyse(market, history, nb, fee_rate) ==
    IF ~market.ok THEN [err |-> "market", opp |-> NoOpportunity, spot |-> 0]
    ELSE
      LET quote == ExtractUpDownProb(market)
      IN  IF quote.err THEN [err |-> "quote", opp |-> NoOpportunity, spot |-> 0]
          ELSE IF FetchFails(history)
              THEN [err |-> "history", opp |-> NoOpportunity, spot |-> 0]
          ELSE
            LET est == EstimateUpProbabilityKnn(history.closes, nb)
            IN  IF est.status = "raised"
                    THEN [err |-> "estimator", opp |-> NoOpportunity, spot |-> 0]
                ELSE [err |-> "",
                      opp |-> BuildOpportunity(quote.up, quote.down, est.prob, fee_rate),
                      spot |-> history.closes[Len(history.closes)]]

-----------------------------------------------------------------------------
(* The gate called on its own *)

\* every probability is a multiple of 1/PScale here
GateInputs ==
    [up_pm : 0..PScale, down_pm : 0..PScale,
     up_model : {<<k, PScale>> : k \in 0..PScale}, fee_rate : 0..MaxFee]

GateInit ==
    /\ gin \in GateInputs
    /\ opp = NoOpportunity

GateIdle ==
    /\ gin = [up_pm |-> 0, down_pm |-> 0, up_model |-> <<0, 1>>, fee_rate |-> 0]
    /\ opp = NoOpportunity

Evaluate ==
    /\ opp.signal = "NONE"
    /\ opp' = BuildOpportunity(gin.up_pm, gin.down_pm, gin.up_model, gin.fee_rate)
    /\ UNCHANGED <<gin, knnVars, quoteVars, monVars>>

-----------------------------------------------------------------------------
(* What the outside world can answer in a round *)

Price(v) == [num |-> TRUE, v |-> v]

MarketDown == [ok |-> FALSE, outcomes |-> <<>>, prices |-> <<>>]

MarketEven ==
    [ok |-> TRUE, outcomes |-> <<"Up", "Down">>, prices |-> <<Price(10), Price(10)>>]

MarketReversed ==
    [ok |-> TRUE, outcomes |-> <<"DOWN", "yes">>, prices |-> <<Price(2), Price(19)>>]

MarketUnlabelled ==
    [ok |-> TRUE, outcomes |-> <<>>, prices |-> <<Price(25), Price(0)>>]

MarketOnePrice ==
    [ok |-> TRUE, outcomes |-> <<"Up", "Down">>, prices |-> <<Price(10)>>]

MarketSet == {MarketDown, MarketEven, MarketReversed, MarketUnlabelled, MarketOnePrice}

HistoryDown == [ok |-> FALSE, closes |-> <<>>]

HistoryOf(shape, n, h) == [ok |-> TRUE, closes |-> MakeSeries(shape, n, h, 0)]

HistorySet ==
    {HistoryDown,
     HistoryOf("flat", MinBars - 1, -1),
     HistoryOf("flat", MinBars, -1),
     HistoryOf("up", MaxLen, -1),
     HistoryOf("down", MaxLen, -1),
     HistoryOf("down", MaxLen, 0),
     HistoryOf("wave", MaxLen, Horizon)}

\* what the trading client answers: the position held, in units of 1e-7,
\* or a failing positions request, or a rejected order
BrokerIdle == [positions_ok |-> TRUE, qty |-> 0, submit_ok |-> TRUE]

BrokerSet ==
    {BrokerIdle,
     [positions_ok |-> TRUE, qty |-> 16, submit_ok |-> TRUE],
     [positions_ok |-> TRUE, qty |-> 200000, submit_ok |-> TRUE],
     [positions_ok |-> TRUE, qty |-> 200000, submit_ok |-> FALSE],
     [positions_ok |-> FALSE, qty |-> 0, submit_ok |-> TRUE]}

\* rounds in which a fetch, the quote or the estimator fails
FailingWorlds ==
    [market : {MarketDown, MarketOnePrice}, history : {HistoryOf("up", MaxLen, -1)},
     broker : {BrokerIdle}, log_body : {TRUE}, log_handler : BOOLEAN]
    \cup
    [market : {MarketEven},
     history : {HistoryDown, HistoryOf("flat", MinBars - 1, -1),
                HistoryOf("wave", MaxLen, Horizon)},
     broker : {BrokerIdle}, log_body : {TRUE}, log_handler : BOOLEAN]

\* rounds that build an Opportunity; writing it to the log may fail
WorkingWorlds ==
    {w \in [market : {MarketEven, MarketReversed, MarketUnlabelled},
            history : {HistoryOf("flat", MinBars, -1), HistoryOf("up", MaxLen, -1),
                       HistoryOf("down", MaxLen, -1), HistoryOf("down", MaxLen, 0)},
            broker : {BrokerIdle}, log_body : BOOLEAN, log_handler : BOOLEAN] :
        w.log_body => w.log_handler}

\* the answers that matter for trading: an ARBITRAGE on the UP side, one on
\* the DOWN side, one on the DOWN side with a spot price of zero, a NO_EDGE,
\* each with every answer of the trading client, and a failing round
TradeWorlds ==
    [market : {MarketEven},
     history : {HistoryOf("flat", MinBars, -1), HistoryOf("up", MaxLen, -1),
                HistoryOf("down", MaxLen, -1), HistoryOf("down", MaxLen, 0)},
     broker : BrokerSet, log_body : BOOLEAN, log_handler : {TRUE}]
    \cup
    [market : {MarketDown}, history : {HistoryDown},
     broker : {BrokerIdle}, log_body : {TRUE}, log_handler : {TRUE}]
    \cup
    [market : {MarketEven}, history : {HistoryOf("flat", MinBars - 1, -1)},
     broker : {BrokerIdle}, log_body : {TRUE}, log_handler : {TRUE}]

\* every answer, for one monitor on its own
LoopWorlds == FailingWorlds \cup WorkingWorlds

\* the answers that matter for the lock: a round that logs an Opportunity and
\* a round whose error escapes the handler
LockWorlds ==
    {[market |-> MarketEven, history |-> HistoryOf("flat", MinBars, -1),
      broker |-> BrokerIdle, log_body |-> TRUE, log_handler |-> TRUE],
     [market |-> MarketEven, history |-> HistoryDown,
      broker |-> BrokerIdle, log_body |-> TRUE, log_handler |-> FALSE]}

-----------------------------------------------------------------------------
(* The command lines *)

DefaultArgs ==
    [stop |-> FALSE, interval_seconds |-> 1, fee_rate |-> 1, config_ok |-> TRUE,
     trade_notional_usd |-> 100, trade_cooldown_seconds |-> 2, polls |-> 0,
     auto_trade |-> FALSE, neighbors |-> 80]

StopArgs == {[DefaultArgs EXCEPT !.stop = TRUE]}

\* the monitors that contend for the lock run unbounded or for one round,
\* or are turned away for their parameters
LockArgs ==
    {[DefaultArgs EXCEPT !.polls = n] : n \in {0, 1}}
    \cup {[DefaultArgs EXCEPT !.fee_rate = 0]}

InvalidArgs ==
    {[DefaultArgs EXCEPT !.interval_seconds = 0],
     [DefaultArgs EXCEPT !.interval_seconds = -2],
     [DefaultArgs EXCEPT !.fee_rate = 0],
     [DefaultArgs EXCEPT !.fee_rate = -1],
     [DefaultArgs EXCEPT !.trade_notional_usd = -100],
     [DefaultArgs EXCEPT !.config_ok = FALSE],
     [DefaultArgs EXCEPT !.trade_notional_usd = 0],
     [DefaultArgs EXCEPT !.trade_cooldown_seconds = -1]}

\* (interval, cooldown): no cooldown, a cooldown of two intervals, of one
\* interval, and of one and a half
Timings == {<<1, 0>>, <<1, 2>>, <<2, 2>>, <<2, 3>>}

\* --neighbors values that are not positive
OddNeighbors == {0, -3}

LoopArgs ==
    InvalidArgs
    \cup {[DefaultArgs EXCEPT !.polls = n] : n \in 0..MaxRounds}
    \cup {[DefaultArgs EXCEPT !.neighbors = nb] : nb \in OddNeighbors}

\* --auto-trade, unbounded, with each timing, and one run without it
TradeArgs ==
    {[DefaultArgs EXCEPT !.auto_trade = TRUE, !.interval_seconds = t[1],
                         !.trade_cooldown_seconds = t[2]] : t \in Timings}
    \cup {DefaultArgs}

\* Analyse on the answers and command lines above, each case computed once
AnalysisTable ==
    {<<m, h, a.neighbors, a.fee_rate, Analyse(m, h, a.neighbors, a.fee_rate)>> :
        m \in MarketSet, h \in HistorySet,
        a \in {DefaultArgs} \cup {[DefaultArgs EXCEPT !.neighbors = nb] : nb \in OddNeighbors}}

Analysed(market, history, nb, fee_rate) ==
    LET t == CHOOSE t \in AnalysisTable :
                 /\ t[1] = market
                 /\ t[2] = history
                 /\ t[3] = nb
                 /\ t[4] = fee_rate
    IN  t[5]

-----------------------------------------------------------------------------
(* The invocations of the script and the processes they are *)

\* invocations without --stop; the number is the process identifier
Monitors == {1, 2}

\* invocations with --stop
Stoppers == {3}

\* a process that ran earlier and is gone; the lock file may still record it
Former == {4}

Procs == Monitors \cup Stoppers \cup Former

\* polls of stop_monitor after taskkill
StopPolls == 20

\* process_exists(pid): tasklist lists the process.  A process that taskkill
\* has terminated ("dying") is listed until the system has removed it.
ProcessExistsMut(pid) == FALSE
ProcessExists(pid) == pc[pid] \notin {"init", "exited", "dead"}

\* the process runs the polling loop
Running(p) == pc[p] \in {"round", "after_round", "sleep"}

\* remove_pid_file: the file is gone whatever it held
RemovePidFileMut(file) == file
RemovePidFile(file) == <<>>

\* write_pid
WritePidFileMut(pid) == <<>>
WritePidFile(pid) == <<pid>>

\* raise SystemExit(code), or an exception that ends the process
Exit(p, code, reason) ==
    /\ pc' = [pc EXCEPT ![p] = "exited"]
    /\ exit_code' = [exit_code EXCEPT ![p] = <<code>>]
    /\ exit_reason' = [exit_reason EXCEPT ![p] = reason]

Goto(p, label) ==
    /\ pc' = [pc EXCEPT ![p] = label]
    /\ UNCHANGED <<exit_code, exit_reason>>

\* the checks of main before the lock: lines 551-568
ConfigErrorMut(a) ==
    IF a.interval_seconds < 0 \/ a.fee_rate < 0 THEN "config"
    ELSE IF ~a.config_ok THEN "credentials"
    ELSE IF a.trade_notional_usd < 0 THEN "config"
    ELSE ""
ConfigError(a) ==
    IF a.interval_seconds <= 0 \/ a.fee_rate <= 0 THEN "config"
    ELSE IF ~a.config_ok THEN "credentials"
    ELSE IF a.trade_notional_usd <= 0 \/ a.trade_cooldown_seconds < 0 THEN "config"
    ELSE ""

\* main up to line 568: parse_args, --stop, the parameter checks
Invoke(p, a) ==
    /\ pc[p] = "init"
    /\ args' = [args EXCEPT ![p] = a]
    /\ IF a.stop THEN Goto(p, "stop_read")
       ELSE IF ConfigError(a) # "" THEN Exit(p, 1, ConfigError(a))
       ELSE Goto(p, "read_pid")
    /\ UNCHANGED <<aloneVars, bars, pidFile, existing_pid, rounds, last_trade_ts, err, logBy,
                   stop_tries, orders, now>>

\* line 570: existing_pid = read_pid(args.pid_file)
ReadPid(p) ==
    /\ pc[p] = "read_pid"
    /\ existing_pid' = [existing_pid EXCEPT ![p] = pidFile]
    /\ Goto(p, "check_alive")
    /\ UNCHANGED <<aloneVars, bars, pidFile, args, rounds, last_trade_ts, err, logBy,
                   stop_tries, orders, now>>

\* lines 571-573: a live recorded process ends the startup
CheckAliveMut(p) ==
    /\ pc[p] = "check_alive"
    /\ IF existing_pid[p] # <<>> /\ ProcessExists(existing_pid[p][1])
       THEN Exit(p, 1, "lock_held") /\ pidFile' = RemovePidFile(pidFile)
       ELSE Goto(p, "check_stale") /\ pidFile' = pidFile
    /\ UNCHANGED <<aloneVars, bars, args, existing_pid, rounds, last_trade_ts, err,
                   logBy, stop_tries, orders, now>>
CheckAlive(p) ==
    /\ pc[p] = "check_alive"
    /\ IF existing_pid[p] # <<>> /\ ProcessExists(existing_pid[p][1])
       THEN Exit(p, 1, "lock_held")
       ELSE Goto(p, "check_stale")
    /\ UNCHANGED <<aloneVars, bars, pidFile, args, existing_pid, rounds, last_trade_ts, err,
                   logBy, stop_tries, orders, now>>

\* line 574: the second process_exists call
CheckStale(p) ==
    /\ pc[p] = "check_stale"
    /\ IF existing_pid[p] # <<>> /\ ~ProcessExists(existing_pid[p][1])
       THEN Goto(p, "unlink_stale")
       ELSE Goto(p, "write_pid")
    /\ UNCHANGED <<aloneVars, bars, pidFile, args, existing_pid, rounds, last_trade_ts, err,
                   logBy, stop_tries, orders, now>>

\* line 575: remove_pid_file
UnlinkStale(p) ==
    /\ pc[p] = "unlink_stale"
    /\ pidFile' = RemovePidFile(pidFile)
    /\ Goto(p, "write_pid")
    /\ UNCHANGED <<aloneVars, bars, args, existing_pid, rounds, last_trade_ts, err, logBy,
                   stop_tries, orders, now>>

\* lines 585-588: the lock is written and the loop entered
WritePidMut(p) ==
    /\ pc[p] = "write_pid"
    /\ IF pidFile = <<>>
       THEN /\ pidFile' = WritePidFile(p)
            /\ Goto(p, "round")
       ELSE /\ pidFile' = pidFile
            /\ Exit(p, 1, "lock_held")
    /\ rounds' = [rounds EXCEPT ![p] = 0]
    /\ last_trade_ts' = [last_trade_ts EXCEPT ![p] = <<>>]
    /\ UNCHANGED <<aloneVars, bars, args, existing_pid, err, logBy, stop_tries, orders, now>>
WritePid(p) ==
    /\ pc[p] = "write_pid"
    /\ pidFile' = WritePidFile(p)
    /\ rounds' = [rounds EXCEPT ![p] = 0]
    /\ last_trade_ts' = [last_trade_ts EXCEPT ![p] = <<>>]
    /\ Goto(p, "round")
    /\ UNCHANGED <<aloneVars, bars, args, existing_pid, err, logBy, stop_tries, orders, now>>

\* the entry append_jsonl writes for a round
OppEntry(o, trade) ==
    [signal |-> o.signal, best_side |-> o.best_side,
     trade |-> trade.reason, executed |-> trade.executed,
     order_id |-> trade.has_order_id]

ErrEntry ==
    [signal |-> "ERROR", best_side |-> "NONE", trade |-> "", executed |-> FALSE,
     order_id |-> FALSE]

\* line 609: "if args.auto_trade"
TradeEnabledMut(a) == TRUE
TradeEnabled(a) == a.auto_trade

\* whether an exception raised in the try body passes "except Exception"
\* uncaught: never, Exception catches each of them
HandlerMissingMut(e) == e # "log"
HandlerMissing(e) == FALSE

\* lines 590-641: one round.  w is what the outside world answers in this
\* round: the market fetched, the price history, the trading client, and
\* whether append_jsonl succeeds in the try body (log_body) and in the
\* handler (log_handler).  e is the exception raised in the try body, out
\* the exception that leaves the round ("log": append_jsonl failed in the
\* handler).
Round(p, w) ==
    /\ pc[p] = "round"
    /\ rounds[p] < MaxRounds
    /\ rounds' = [rounds EXCEPT ![p] = rounds[p] + 1]
    /\ LET a == Analysed(w.market, w.history, args[p].neighbors, args[p].fee_rate)
           result == [signal |-> a.opp.signal, best_side |-> a.opp.best_side,
                      spot |-> a.spot]
           trade == IF a.err = "" /\ TradeEnabled(args[p])
                    THEN MaybeAutoTrade(result, w.broker, args[p].trade_notional_usd,
                                        last_trade_ts[p], args[p].trade_cooldown_seconds, now[p])
                    ELSE NoTrade
           e == IF a.err # "" THEN a.err ELSE IF w.log_body THEN "" ELSE "log"
           out == IF e = "" THEN ""
                  ELSE IF HandlerMissing(e) THEN e
                  ELSE IF w.log_handler THEN "" ELSE "log"
       IN  /\ last_trade_ts' = [last_trade_ts EXCEPT ![p] =
                  Stamp(trade, last_trade_ts[p], now[p])]
           /\ orders' = IF trade.executed
                        THEN Append(orders,
                                 [by |-> p, side |-> trade.side,
                                  sell_qty |-> trade.sell_qty, ts |-> now[p],
                                  notional |-> IF trade.side = "buy"
                                               THEN args[p].trade_notional_usd ELSE 0,
                                  held |-> IF trade.side = "sell"
                                           THEN w.broker.qty ELSE 0])
                        ELSE orders
           /\ err' = [err EXCEPT ![p] = IF out # "" THEN out ELSE e]
           /\ bars' = [bars EXCEPT ![p] =
                  IF a.err \in {"market", "quote"} THEN <<>>
                  ELSE <<Len(w.history.closes)>>]
           /\ logBy' = [logBy EXCEPT ![p] =
                  IF e = "" THEN Append(logBy[p], OppEntry(a.opp, trade))
                  ELSE IF out # "" THEN logBy[p]
                  ELSE Append(logBy[p], ErrEntry)]
           /\ IF out # ""
              THEN /\ Exit(p, 1, "fatal")
                   /\ pidFile' = RemovePidFile(pidFile)
              ELSE /\ Goto(p, "after_round")
                   /\ pidFile' = pidFile
    /\ UNCHANGED <<aloneVars, args, existing_pid, stop_tries, now>>

\* lines 628-630 and 646-647: Ctrl-C inside the try body of a round
InterruptRound(p) ==
    /\ pc[p] = "round"
    /\ rounds[p] < MaxRounds
    /\ rounds' = [rounds EXCEPT ![p] = rounds[p] + 1]
    /\ Exit(p, 0, "interrupt")
    /\ pidFile' = RemovePidFile(pidFile)
    /\ UNCHANGED <<aloneVars, bars, args, existing_pid, last_trade_ts, err, logBy, stop_tries,
                   orders, now>>

\* lines 643-644 and 646-647: the end of a bounded run
LoopCheckMut(p) ==
    /\ pc[p] = "after_round"
    /\ IF args[p].polls > 0 /\ rounds[p] > args[p].polls
       THEN /\ Exit(p, 0, "completed")
            /\ pidFile' = RemovePidFile(pidFile)
       ELSE /\ Goto(p, "sleep")
            /\ pidFile' = pidFile
    /\ UNCHANGED <<aloneVars, bars, args, existing_pid, rounds, last_trade_ts, err, logBy,
                   stop_tries, orders, now>>
LoopCheck(p) ==
    /\ pc[p] = "after_round"
    /\ IF args[p].polls > 0 /\ rounds[p] >= args[p].polls
       THEN /\ Exit(p, 0, "completed")
            /\ pidFile' = RemovePidFile(pidFile)
       ELSE /\ Goto(p, "sleep")
            /\ pidFile' = pidFile
    /\ UNCHANGED <<aloneVars, bars, args, existing_pid, rounds, last_trade_ts, err, logBy,
                   stop_tries, orders, now>>

\* line 645: time.sleep(args.interval_seconds)
Sleep(p) ==
    /\ pc[p] = "sleep"
    /\ rounds[p] < MaxRounds
    /\ now' = [now EXCEPT ![p] = now[p] + args[p].interval_seconds]
    /\ Goto(p, "round")
    /\ UNCHANGED <<aloneVars, bars, pidFile, args, existing_pid, rounds, last_trade_ts, err,
                   logBy, stop_tries, orders>>

\* lines 645-647: Ctrl-C outside the try body of a round; KeyboardInterrupt
\* passes through the finally clause and ends the process
InterruptSleep(p) ==
    /\ pc[p] \in {"after_round", "sleep"}
    /\ Exit(p, 1, "interrupt_sleep")
    /\ pidFile' = RemovePidFile(pidFile)
    /\ UNCHANGED <<aloneVars, bars, args, existing_pid, rounds, last_trade_ts, err, logBy,
                   stop_tries, orders, now>>

-----------------------------------------------------------------------------
(* stop_monitor *)

\* lines 348-351
StopRead(s) ==
    /\ pc[s] = "stop_read"
    /\ existing_pid' = [existing_pid EXCEPT ![s] = pidFile]
    /\ IF pidFile = <<>> THEN Exit(s, 1, "stop_no_pid_file")
       ELSE Goto(s, "stop_check")
    /\ UNCHANGED <<aloneVars, bars, pidFile, args, rounds, last_trade_ts, err, logBy,
                   stop_tries, orders, now>>

\* line 352
StopCheck(s) ==
    /\ pc[s] = "stop_check"
    /\ IF ProcessExists(existing_pid[s][1]) THEN Goto(s, "stop_kill")
       ELSE Goto(s, "stop_unlink_stale")
    /\ UNCHANGED <<aloneVars, bars, pidFile, args, existing_pid, rounds, last_trade_ts, err,
                   logBy, stop_tries, orders, now>>

\* lines 353-355
StopUnlinkStaleMut(s) ==
    /\ pc[s] = "stop_unlink_stale"
    /\ pidFile' = RemovePidFile(pidFile)
    /\ Exit(s, 0, "stop_not_running")
    /\ UNCHANGED <<aloneVars, bars, args, existing_pid, rounds, last_trade_ts, err, logBy,
                   stop_tries, orders, now>>
StopUnlinkStale(s) ==
    /\ pc[s] = "stop_unlink_stale"
    /\ pidFile' = RemovePidFile(pidFile)
    /\ Exit(s, 1, "stop_not_running")
    /\ UNCHANGED <<aloneVars, bars, args, existing_pid, rounds, last_trade_ts, err, logBy,
                   stop_tries, orders, now>>

\* lines 357-373: taskkill /PID pid /T /F ends the process where it stands,
\* without its finally clause; it fails when the process is gone
StopKill(s) ==
    /\ pc[s] = "stop_kill"
    /\ LET t == existing_pid[s][1]
       IN  IF ProcessExists(t)
           THEN /\ pc' = [pc EXCEPT ![t] = "dying", ![s] = "stop_poll"]
                /\ UNCHANGED <<exit_code, exit_reason>>
           ELSE Exit(s, 1, "stop_failed")
    /\ stop_tries' = [stop_tries EXCEPT ![s] = 0]
    /\ UNCHANGED <<aloneVars, bars, pidFile, args, existing_pid, rounds, last_trade_ts, err,
                   logBy, orders, now>>

\* lines 375-383: one pass of the polling loop, and giving up after the last
StopPoll(s) ==
    /\ pc[s] = "stop_poll"
    /\ IF ~ProcessExists(existing_pid[s][1])
       THEN /\ Goto(s, "stop_unlink")
            /\ UNCHANGED stop_tries
       ELSE /\ stop_tries' = [stop_tries EXCEPT ![s] = stop_tries[s] + 1]
            /\ IF stop_tries[s] + 1 >= StopPolls THEN Exit(s, 1, "stop_timeout")
               ELSE Goto(s, "stop_poll")
    /\ UNCHANGED <<aloneVars, bars, pidFile, args, existing_pid, rounds, last_trade_ts, err,
                   logBy, orders, now>>

\* lines 378-380
StopUnlink(s) ==
    /\ pc[s] = "stop_unlink"
    /\ pidFile' = RemovePidFile(pidFile)
    /\ Exit(s, 0, "stopped")
    /\ UNCHANGED <<aloneVars, bars, args, existing_pid, rounds, last_trade_ts, err, logBy,
                   stop_tries, orders, now>>

\* the system removes a terminated process from the process table
ProcessGone(p) ==
    /\ pc[p] = "dying"
    /\ Goto(p, "dead")
    /\ UNCHANGED <<aloneVars, bars, pidFile, args, existing_pid, rounds, last_trade_ts, err,
                   logBy, stop_tries, orders, now>>

-----------------------------------------------------------------------------
(* Initial states *)

MonIdle ==
    /\ pidFile = <<>>
    /\ pc = [p \in Procs |-> IF p \in Former THEN "dead" ELSE "init"]
    /\ args = [p \in Procs |-> DefaultArgs]
    /\ existing_pid = [p \in Procs |-> <<>>]
    /\ rounds = [p \in Procs |-> 0]
    /\ last_trade_ts = [p \in Procs |-> <<>>]
    /\ err = [p \in Procs |-> ""]
    /\ exit_code = [p \in Procs |-> <<>>]
    /\ exit_reason = [p \in Procs |-> ""]
    /\ logBy = [p \in Procs |-> <<>>]
    /\ stop_tries = [p \in Procs |-> 0]
    /\ orders = <<>>
    /\ bars = [p \in Procs |-> <<>>]
    /\ now = [p \in Procs |-> 0]

\* no lock file, or the lock file a process that is gone has left behind
MonInit ==
    /\ pidFile \in {<<>>} \cup {<<f>> : f \in Former}
    /\ pc = [p \in Procs |-> IF p \in Former THEN "dead" ELSE "init"]
    /\ args = [p \in Procs |-> DefaultArgs]
    /\ existing_pid = [p \in Procs |-> <<>>]
    /\ rounds = [p \in Procs |-> 0]
    /\ last_trade_ts = [p \in Procs |-> <<>>]
    /\ err = [p \in Procs |-> ""]
    /\ exit_code = [p \in Procs |-> <<>>]
    /\ exit_reason = [p \in Procs |-> ""]
    /\ logBy = [p \in Procs |-> <<>>]
    /\ stop_tries = [p \in Procs |-> 0]
    /\ orders = <<>>
    /\ bars = [p \in Procs |-> <<>>]
    /\ now = [p \in Procs |-> 0]

-----------------------------------------------------------------------------
(* Specification of the gate on its own *)

InitGate == KnnIdle /\ GateInit /\ QuoteIdle /\ MonIdle

NextGate == Evaluate

SpecGate == InitGate /\ [][NextGate]_vars

-----------------------------------------------------------------------------
(* Specification of the quote extraction on its own *)

InitQuote == KnnIdle /\ GateIdle /\ QuoteInit /\ MonIdle

NextQuote == Extract

SpecQuote == InitQuote /\ [][NextQuote]_vars

-----------------------------------------------------------------------------
(* Specification of the estimator on its own *)

InitKnn == KnnInit /\ GateIdle /\ QuoteIdle /\ MonIdle

NextKnn == Estimate

SpecKnn == InitKnn /\ [][NextKnn]_vars

-----------------------------------------------------------------------------
(* Specification of the lock: two monitors and one --stop invocation *)

Init == KnnIdle /\ GateIdle /\ QuoteIdle /\ MonInit

Next ==
    \/ \E p \in Monitors, a \in LockArgs : Invoke(p, a)
    \/ \E s \in Stoppers, a \in StopArgs : Invoke(s, a)
    \/ \E p \in Monitors : ReadPid(p)
    \/ \E p \in Monitors : CheckAlive(p)
    \/ \E p \in Monitors : CheckStale(p)
    \/ \E p \in Monitors : UnlinkStale(p)
    \/ \E p \in Monitors : WritePid(p)
    \/ \E p \in Monitors, w \in LockWorlds : Round(p, w)
    \/ \E p \in Monitors : InterruptRound(p)
    \/ \E p \in Monitors : LoopCheck(p)
    \/ \E p \in Monitors : Sleep(p)
    \/ \E p \in Monitors : InterruptSleep(p)
    \/ \E s \in Stoppers : StopRead(s)
    \/ \E s \in Stoppers : StopCheck(s)
    \/ \E s \in Stoppers : StopUnlinkStale(s)
    \/ \E s \in Stoppers : StopKill(s)
    \/ \E s \in Stoppers : StopPoll(s)
    \/ \E s \in Stoppers : StopUnlink(s)
    \/ \E p \in Monitors : ProcessGone(p)

Spec == Init /\ [][Next]_vars

-----------------------------------------------------------------------------
(* Specification of the loop: one monitor, every answer of the world *)

Solo == CHOOSE p \in Monitors : \A q \in Monitors : p <= q

InitLoop == KnnIdle /\ GateIdle /\ QuoteIdle /\ MonInit

NextLoop ==
    \/ \E a \in LoopArgs : Invoke(Solo, a)
    \/ ReadPid(Solo)
    \/ CheckAlive(Solo)
    \/ CheckStale(Solo)
    \/ UnlinkStale(Solo)
    \/ WritePid(Solo)
    \/ \E w \in LoopWorlds : Round(Solo, w)
    \/ InterruptRound(Solo)
    \/ LoopCheck(Solo)
    \/ Sleep(Solo)
    \/ InterruptSleep(Solo)

SpecLoop == InitLoop /\ [][NextLoop]_vars

\* the loop does not stall: a round returns or raises, the test after it is
\* made, the sleep ends; nothing obliges an interrupt to come
SpecLoopLive ==
    /\ SpecLoop
    /\ WF_vars(\E w \in LoopWorlds : Round(Solo, w))
    /\ WF_vars(LoopCheck(Solo))
    /\ WF_vars(Sleep(Solo))

-----------------------------------------------------------------------------
(* Specification of trading: one monitor with --auto-trade *)

InitTrade == KnnIdle /\ GateIdle /\ QuoteIdle /\ MonIdle

NextTrade ==
    \/ \E a \in TradeArgs : Invoke(Solo, a)
    \/ ReadPid(Solo)
    \/ CheckAlive(Solo)
    \/ CheckStale(Solo)
    \/ WritePid(Solo)
    \/ \E w \in TradeWorlds : Round(Solo, w)
    \/ LoopCheck(Solo)
    \/ Sleep(Solo)

SpecTrade == InitTrade /\ [][NextTrade]_vars

-----------------------------------------------------------------------------
(* Claims about the estimator (checked under SpecKnn) *)

\* the number of indices t in range(5, len - 5) with closes[t-5] > 0 and
\* closes[t] > 0, counted directly on the series
ValidPairCount(c) ==
    Cardinality({i \in (Horizon + 1)..(Len(c) - Horizon) :
        c[i - Horizon] > 0 /\ c[i] > 0})

InFallback == knn.status # "none" /\ ValidPairCount(closes) < MinPairs

\* C1: whenever the estimator returns, the probability it returns lies in
\* [0.01, 0.99], for every series and every neighbor count.
C1_ProbInBounds ==
    knn.status = "returned" =>
        /\ RLeq(<<1, 100>>, knn.prob)
        /\ RLeq(knn.prob, <<99, 100>>)

\* C1 witness: a series with at least 50 pairs whose labels are all 1, so the
\* blend is 1 and the clip to 0.99 acted.
C1_Witness ==
    /\ knn.status = "returned"
    /\ knn.sample_count >= MinPairs
    /\ REq(knn.uncond_up_prob, <<1, 1>>)
    /\ REq(knn.prob, <<99, 100>>)

\* C2: with fewer than 50 valid pairs the estimator returns (does not raise)
\* probability exactly 0.5, current return 0 and unconditional rate 0.5.
C2_FallbackNeutral ==
    InFallback =>
        /\ knn.status = "returned"
        /\ REq(knn.prob, <<1, 2>>)
        /\ REq(knn.current_5m_ret, <<0, 1>>)
        /\ REq(knn.uncond_up_prob, <<1, 2>>)

\* C2 witness: the fallback taken at its boundary (49 valid pairs) on a series
\* whose closes[-6] is zero, which would raise if the return were computed.
C2_Witness ==
    /\ InFallback
    /\ knn.status = "returned"
    /\ ValidPairCount(closes) = MinPairs - 1
    /\ closes[Len(closes) - Horizon] = 0

\* C3 as claimed: in the fallback the reported sample count is zero.
C3_SampleCountZero == InFallback => knn.sample_count = 0

\* C3 amended: in the fallback the reported sample count is the number of
\* valid pairs that were built (below 50; zero only when there is none).
C3_SampleCountIsPairCount ==
    InFallback =>
        /\ knn.sample_count = ValidPairCount(closes)
        /\ knn.sample_count < MinPairs

\* C3 witness: a fallback result that reports a positive sample count.
C3_Witness ==
    /\ InFallback
    /\ knn.status = "returned"
    /\ knn.sample_count > 0
    /\ REq(knn.prob, <<1, 2>>)

-----------------------------------------------------------------------------
(* Claims about the gate (checked under SpecGate) *)

Built == opp.signal # "NONE"

\* edge_up = model_up - market_up, as a numerator over PScale * PScale
EdgeUp == gin.up_model[1] - gin.up_pm

\* edge_down = (1 - model_up) - market_down, over the same denominator
EdgeDown == (PScale - gin.up_model[1]) - gin.down_pm

\* C4: signal is ARBITRAGE exactly when best_edge > fee_rate, and NO_EDGE
\* otherwise (in particular when best_edge equals fee_rate).
C4_SignalGate ==
    Built =>
        /\ opp.signal \in {"ARBITRAGE", "NO_EDGE"}
        /\ opp.signal = "ARBITRAGE" <=> RLess(<<gin.fee_rate, PScale>>, opp.best_edge)

\* C4 witness: best_edge equal to a positive fee_rate, signalled NO_EDGE.
C4_Witness ==
    /\ Built
    /\ gin.fee_rate > 0
    /\ REq(opp.best_edge, <<gin.fee_rate, PScale>>)
    /\ opp.signal = "NO_EDGE"

\* C5: best_side is UP exactly when edge_up >= edge_down, DOWN otherwise, and
\* best_edge is the larger of the two edges.
C5_BestSide ==
    Built =>
        /\ opp.best_side = (IF EdgeUp >= EdgeDown THEN "UP" ELSE "DOWN")
        /\ REq(opp.best_edge,
               <<IF EdgeUp >= EdgeDown THEN EdgeUp ELSE EdgeDown, PScale>>)

\* C5 witness: equal edges, resolved to UP.
C5_Witness ==
    /\ Built
    /\ EdgeUp = EdgeDown
    /\ opp.best_side = "UP"

-----------------------------------------------------------------------------
(* Claims about the lock (checked under Spec) *)

\* the process is in the process table
Alive(q) == pc[q] \notin {"init", "exited", "dead"}

\* no other invocation has started
Alone(p) == \A q \in (Monitors \cup Stoppers) \ {p} : pc[q] = "init"

\* the exits that end a loop that was entered
LoopExits == {"completed", "interrupt", "interrupt_sleep", "fatal"}

\* C6: a monitor whose liveness check finds the process recorded in the lock
\* file alive exits with status 1 there and then, and an invocation that
\* ended so has run no round, has appended nothing to the log and has not
\* touched the lock file.
C6_LiveLockBlocksStart ==
    /\ [][\A p \in Monitors :
            (/\ pc[p] = "check_alive"
             /\ existing_pid[p] # <<>>
             /\ Alive(existing_pid[p][1])
             /\ pc'[p] # pc[p])
            => (/\ pc'[p] = "exited"
                /\ exit_code'[p] = <<1>>
                /\ exit_reason'[p] = "lock_held"
                /\ pidFile' = pidFile)]_vars
    /\ [](\A p \in Monitors :
            exit_reason[p] = "lock_held" =>
                /\ pc[p] = "exited"
                /\ exit_code[p] = <<1>>
                /\ rounds[p] = 0
                /\ logBy[p] = <<>>)

\* C6 witness: a second monitor has been turned away while the first, whose
\* pid it read in the lock file, is in its loop and has logged a round.
C6_Witness ==
    \E p, q \in Monitors :
        /\ exit_reason[q] = "lock_held"
        /\ existing_pid[q] = <<p>>
        /\ Running(p)
        /\ pidFile = <<p>>
        /\ Len(logBy[p]) > 0
        /\ logBy[q] = <<>>

\* C7: a monitor started on its own over a lock file that records a process
\* which is gone is not turned away, and while it is in its loop the lock
\* file holds its own pid.
C7_StaleLockOverwritten ==
    \A p \in Monitors :
        (Alone(p) /\ existing_pid[p] # <<>> /\ ~Alive(existing_pid[p][1])) =>
            /\ exit_reason[p] # "lock_held"
            /\ Running(p) => pidFile = <<p>>

\* C7 witness: the monitor read the stale pid, is in its loop after a round,
\* and the lock file holds its pid.
C7_Witness ==
    \E p \in Monitors :
        /\ Alone(p)
        /\ existing_pid[p] # <<>>
        /\ existing_pid[p][1] \in Former
        /\ pc[p] = "sleep"
        /\ rounds[p] > 0
        /\ pidFile = <<p>>

C9_WriteAfterCheckUnconditional ==
    [][\A p \in Monitors :
          (pc[p] = "write_pid" /\ pc'[p] # pc[p]) =>
              (pc'[p] = "round" /\ pidFile' = <<p>>)]_vars

\* C9 witness: both monitors are in the loop at the same time, each having
\* read an absent lock file, with no --stop invocation involved.
C9_Witness ==
    /\ \A p \in Monitors : Running(p) /\ existing_pid[p] = <<>>
    /\ \A s \in Stoppers : pc[s] = "init"

-----------------------------------------------------------------------------
(* Claims about the loop (checked under SpecLoop) *)

\* C10: a round in which a fetch, the quote or the estimator fails appends
\* one entry tagged ERROR and the loop goes on; every round that ends has
\* appended exactly one entry; only a failure to write the log itself ends
\* the loop with an error; a bounded run that completes has appended exactly
\* as many entries as --polls.
C10_RoundIsolation ==
    LET p == Solo
    IN  /\ pc[p] \in {"after_round", "sleep"} => Len(logBy[p]) = rounds[p]
        /\ (pc[p] = "after_round" /\ err[p] # "") =>
               logBy[p][rounds[p]].signal = "ERROR"
        /\ (pc[p] = "after_round" /\ err[p] = "") =>
               logBy[p][rounds[p]].signal \in {"ARBITRAGE", "NO_EDGE"}
        /\ exit_reason[p] = "fatal" => err[p] = "log"
        /\ exit_reason[p] = "completed" =>
               /\ rounds[p] = args[p].polls
               /\ Len(logBy[p]) = args[p].polls

\* C10 witness: a bounded run of two or more rounds has completed although
\* its first round failed: the first entry is the ERROR entry, the second an
\* Opportunity.
C10_Witness ==
    LET p == Solo
    IN  /\ exit_reason[p] = "completed"
        /\ args[p].polls >= 2
        /\ Len(logBy[p]) = args[p].polls
        /\ logBy[p][1].signal = "ERROR"
        /\ logBy[p][2].signal # "ERROR"

\* C11: with --polls N > 0 the loop is left after exactly N rounds, without
\* a sleep after the last one and without a further round, whatever the
\* rounds were; it is left for the round count only when N > 0; and a bounded
\* run that has entered the loop does end.
C11_BoundedRun ==
    /\ [](LET p == Solo
              n == args[p].polls
          IN  /\ exit_reason[p] = "completed" => (n > 0 /\ rounds[p] = n)
              /\ (n > 0 /\ pc[p] \in {"round", "sleep"}) => rounds[p] < n
              /\ (n > 0 /\ pc[p] = "after_round") => rounds[p] <= n)
    /\ (pc[Solo] = "round" /\ args[Solo].polls > 0) ~> (pc[Solo] = "exited")

\* C11 witness: a run bounded to two rounds or more has completed with
\* exactly that many rounds, the last of which failed and the first of which
\* did not.
C11_Witness ==
    LET p == Solo
    IN  /\ exit_reason[p] = "completed"
        /\ args[p].polls >= 2
        /\ rounds[p] = args[p].polls
        /\ logBy[p][1].signal # "ERROR"
        /\ logBy[p][rounds[p]].signal = "ERROR"

-----------------------------------------------------------------------------
(* Claims about the quote extraction (checked under SpecQuote) *)

\* the spellings drawn that read up / yes and down / no when case is ignored
UpSpellings == {"Up", "yes"}
DownSpellings == {"DOWN", "No"}

\* position of the first label of the set in the list as passed, 0 if none
FirstAt(labels, S) ==
    IF \A i \in 1..Len(labels) : labels[i] \notin S THEN 0
    ELSE CHOOSE i \in 1..Len(labels) :
             labels[i] \in S /\ \A j \in 1..(i - 1) : labels[j] \notin S

\* a raw price brought into [0, 1]; one that is not a number counts as 0
Unit(x) ==
    IF ~x.num \/ x.v < 0 THEN 0 ELSE IF x.v > PScale THEN PScale ELSE x.v

\* C20: when extract_up_down_prob returns, up is the price at the first
\* outcome labelled up or yes (case ignored) and down the price at the first
\* outcome labelled down or no; with no such label at all up is the price at
\* position 0 and down the price at position 1; both values lie in [0, 1].
C20_QuoteByLabel ==
    (qout # NoQuote /\ ~qout.err) =>
        LET u == FirstAt(qin.outcomes, UpSpellings)
            d == FirstAt(qin.outcomes, DownSpellings)
        IN  /\ u # 0 => qout.up = Unit(qin.prices[u])
            /\ d # 0 => qout.down = Unit(qin.prices[d])
            /\ (u = 0 /\ d = 0) =>
                   /\ qout.up = Unit(qin.prices[1])
                   /\ qout.down = Unit(qin.prices[2])
            /\ qout.up \in 0..PScale
            /\ qout.down \in 0..PScale

\* C20 witness: the first up label is "yes" at the second position, before
\* an "Up" at the third; its price is above 1 and is returned as 1, and the
\* down price below 0 is returned as 0.
C20_Witness ==
    /\ qout # NoQuote
    /\ ~qout.err
    /\ qin.outcomes = <<"No", "yes", "Up">>
    /\ Len(qin.prices) = 3
    /\ qin.prices[1].num /\ qin.prices[1].v < 0
    /\ qin.prices[2].num /\ qin.prices[2].v > PScale
    /\ qin.prices[3].num /\ qin.prices[3].v = 7
    /\ qout.up = PScale
    /\ qout.down = 0

-----------------------------------------------------------------------------
(* Claims about trading (checked under SpecTrade) *)

\* a step that is a round of the monitor: it appends one entry to the log
RoundStep == pc[Solo] = "round" /\ Len(logBy'[Solo]) = Len(logBy[Solo]) + 1

\* the entry the round appends
Logged == logBy'[Solo][Len(logBy'[Solo])]

Cooldown == args[Solo].trade_cooldown_seconds

NeverTraded == last_trade_ts[Solo] = <<>>

\* time.time() of the round minus last_trade_ts
Elapsed == now[Solo] - last_trade_ts[Solo][1]

\* the round called the trading client to place an order
Attempted == orders' # orders \/ Logged.trade \in {"submitted", "submit_failed"}

\* C12 as claimed: an order is submitted only in a round that is not NO_EDGE
\* and only when no trade was made before or the time since last_trade_ts
\* exceeds the cooldown.
C12_OrderOnlyAfterCooldownExceeded ==
    [][(RoundStep /\ Attempted) =>
          /\ Logged.signal # "NO_EDGE"
          /\ NeverTraded \/ Elapsed > Cooldown]_vars

\* C12 amended: as above, with the time since last_trade_ts at least the
\* cooldown: an order is submitted when the two are equal.
C12_OrderOnlyAfterCooldown ==
    [][(RoundStep /\ Attempted) =>
          /\ Logged.signal # "NO_EDGE"
          /\ NeverTraded \/ Elapsed >= Cooldown]_vars

\* C12 witness: two orders were accepted exactly one cooldown apart.
C12_Witness ==
    /\ Cooldown > 0
    /\ Len(orders) >= 2
    /\ orders[2].ts - orders[1].ts = Cooldown

\* the reasons for which a trade outside the cooldown is not executed
Hindered ==
    {"invalid_best_side", "invalid_spot_price", "no_position_for_down_signal",
     "qty_too_small", "submit_failed"}

\* C13: with --auto-trade, an ARBITRAGE round less than the cooldown after
\* an executed trade is not executed and carries the reason cooldown; an
\* ARBITRAGE round at or
\* after the end of the window never carries it and is executed unless the
\* trade is skipped or the trading client fails; any two accepted orders are
\* at least the cooldown apart.
C13_OneTradePerWindow ==
    /\ [](\A i, j \in 1..Len(orders) :
             i < j => orders[j].ts - orders[i].ts >= Cooldown)
    /\ [][(RoundStep /\ args[Solo].auto_trade /\ Logged.signal = "ARBITRAGE") =>
             IF ~NeverTraded /\ Elapsed < Cooldown
             THEN /\ Logged.trade = "cooldown"
                  /\ ~Logged.executed
                  /\ orders' = orders
             ELSE /\ Logged.trade # "cooldown"
                  /\ Logged.trade \notin Hindered =>
                         /\ Logged.executed
                         /\ Len(orders') = Len(orders) + 1
                         /\ last_trade_ts'[Solo] = <<now[Solo]>>]_vars

\* C13 witness: three ARBITRAGE rounds; the first is executed, the second
\* falls in the window and is not, the third comes after it and is.
C13_Witness ==
    /\ Cooldown > args[Solo].interval_seconds
    /\ Len(logBy[Solo]) = 3
    /\ logBy[Solo][1].executed
    /\ logBy[Solo][2].signal = "ARBITRAGE" /\ logBy[Solo][2].trade = "cooldown"
    /\ logBy[Solo][3].executed
    /\ Len(orders) = 2

C15_SubmitFailureIsolated ==
    [][(RoundStep /\ Logged.trade = "submit_failed") =>
          /\ Logged.signal = "ARBITRAGE"
          /\ ~Logged.executed
          /\ ~Logged.order_id
          /\ pc'[Solo] = "after_round"
          /\ orders' = orders
          /\ last_trade_ts'[Solo] = last_trade_ts[Solo]]_vars

\* C15 witness: the submission failed in the first round and the next round,
\* less than a cooldown later, has traded.
C15_Witness ==
    /\ Cooldown > args[Solo].interval_seconds
    /\ Len(logBy[Solo]) = 2
    /\ logBy[Solo][1].trade = "submit_failed"
    /\ logBy[Solo][2].trade = "submitted"
    /\ Len(orders) = 1

ReasonCodes ==
    Hindered \cup {"signal_not_arbitrage", "cooldown", "submitted"}

\* C16: with --auto-trade every Opportunity logged carries a trade outcome
\* with one of the reason codes, and executed holds exactly when the reason
\* is submitted and an order id is present.
C16_OutcomeRecord ==
    \A i \in 1..Len(logBy[Solo]) :
        LET e == logBy[Solo][i]
        IN  (args[Solo].auto_trade /\ e.signal # "ERROR") =>
                /\ e.trade \in ReasonCodes
                /\ e.executed <=> (e.trade = "submitted" /\ e.order_id)

\* C16 witness: three Opportunities with three different outcomes, one of
\* them executed.
C16_Witness ==
    /\ Len(logBy[Solo]) = 3
    /\ logBy[Solo][1].trade = "signal_not_arbitrage"
    /\ logBy[Solo][2].trade = "submitted" /\ logBy[Solo][2].order_id
    /\ logBy[Solo][3].trade = "no_position_for_down_signal"

\* C17 as claimed: a sell is placed only with a positive position and never
\* for more than the position held; a buy is sized by the notional.
C17_SellWithinPosition ==
    \A i \in 1..Len(orders) :
        /\ orders[i].side = "sell" =>
               (orders[i].held > 0 /\ orders[i].sell_qty <= orders[i].held)
        /\ orders[i].side = "buy" =>
               orders[i].notional = args[orders[i].by].trade_notional_usd

-----------------------------------------------------------------------------
(* Claims about the command line (checked under SpecLoop) *)

\* the parameter values the claim names
BadConfig(a) ==
    \/ a.interval_seconds <= 0
    \/ a.fee_rate <= 0
    \/ a.trade_notional_usd <= 0
    \/ a.trade_cooldown_seconds < 0

\* C18: a monitor invoked with a non-positive interval, fee rate or trade
\* notional, or with a negative cooldown, has exited with status 1 without
\* writing the lock, running a round or appending to the log.
C18_InvalidConfigFatal ==
    LET p == Solo
    IN  (pc[p] # "init" /\ BadConfig(args[p])) =>
            /\ pc[p] = "exited"
            /\ exit_code[p] = <<1>>
            /\ rounds[p] = 0
            /\ logBy[p] = <<>>
            /\ pidFile # <<p>>

\* C18 witness: the invocation with a negative cooldown has exited with
\* status 1.
C18_Witness ==
    LET p == Solo
    IN  /\ args[p].trade_cooldown_seconds < 0
        /\ pc[p] = "exited"
        /\ exit_code[p] = <<1>>
        /\ exit_reason[p] = "config"

\* C19 as claimed: a monitor invoked with --neighbors zero or negative does
\* not enter the polling loop.
C19_NeighborsRejected ==
    LET p == Solo
    IN  args[p].neighbors <= 0 => (~Running(p) /\ rounds[p] = 0)

-----------------------------------------------------------------------------
(* Claims about a round with a short price history (checked under SpecTrade) *)

\* the last round asked for the price history and got fewer than 30 closes
ShortHistory(b) == b # <<>> /\ b[1] < 30

\* C21: a round in which the price-history source returns fewer than 30
\* closes ends with the fetcher's error: it is logged as an ERROR entry, no
\* Opportunity is built, no order is placed and last_trade_ts is unchanged.
C21_ShortHistoryIsError ==
    /\ []((pc[Solo] = "after_round" /\ ShortHistory(bars[Solo])) =>
             /\ err[Solo] = "history"
             /\ logBy[Solo][Len(logBy[Solo])].signal = "ERROR"
             /\ logBy[Solo][Len(logBy[Solo])].trade = "")
    /\ [][(RoundStep /\ ShortHistory(bars'[Solo])) =>
             /\ Logged.signal = "ERROR"
             /\ orders' = orders
             /\ last_trade_ts'[Solo] = last_trade_ts[Solo]]_vars

\* C21 witness: with --auto-trade, after a round that traded, a round got 29
\* closes and was logged as ERROR.
C21_Witness ==
    /\ args[Solo].auto_trade
    /\ pc[Solo] = "after_round"
    /\ bars[Solo] = <<29>>
    /\ Len(logBy[Solo]) = 2
    /\ logBy[Solo][1].executed
    /\ logBy[Solo][2].signal = "ERROR"
    /\ Len(orders) = 1

-----------------------------------------------------------------------------
(* Claims about --stop (checked under Spec) *)

\* the exits of stop_monitor after it found the recorded process alive
FoundLive == {"stopped", "stop_timeout", "stop_failed"}

\* the exits of stop_monitor that found no lock file or a stale one
FoundNone == {"stop_no_pid_file", "stop_not_running"}

\* an invocation with --stop runs no round, appends nothing and never holds
\* the lock
StopsOnly(s) ==
    /\ ~Running(s)
    /\ rounds[s] = 0
    /\ logBy[s] = <<>>
    /\ pidFile # <<s>>

\* C22 as claimed: an invocation with --stop never starts a loop or writes
\* the lock; having found the recorded instance alive it has, when it exits,
\* terminated it, removed the lock file and exited 0; having found no lock
\* file or a stale one it exits non-zero.
C22_StopAlwaysSucceedsOnLive ==
    \A s \in Stoppers :
        /\ StopsOnly(s)
        /\ (pc[s] = "exited" /\ exit_reason[s] \in FoundLive) =>
               /\ exit_code[s] = <<0>>
               /\ pc[existing_pid[s][1]] = "dead"
               /\ pidFile # existing_pid[s]
        /\ (pc[s] = "exited" /\ exit_reason[s] \in FoundNone) =>
               exit_code[s] = <<1>>

\* C22 amended: as above, except that on a live instance the lock file is
\* removed and the status is 0 only when the instance was seen gone within
\* the polls; when taskkill fails or the polls run out the status is 1; a
\* stale lock file is removed.
C22_StopOutcome ==
    \A s \in Stoppers :
        /\ StopsOnly(s)
        /\ pc[s] = "exited" => (exit_code[s] = <<0>> <=> exit_reason[s] = "stopped")
        /\ (pc[s] = "exited" /\ exit_reason[s] = "stopped") =>
               /\ pc[existing_pid[s][1]] = "dead"
               /\ pidFile # existing_pid[s]
        /\ (pc[s] = "exited" /\ exit_reason[s] \in FoundLive \cup FoundNone) =>
               (exit_code[s] = <<1>> <=> exit_reason[s] # "stopped")
        /\ (pc[s] = "exited" /\ exit_reason[s] = "stop_not_running") =>
               pidFile # existing_pid[s]

\* C22 witness: the --stop invocation found a monitor that had run a round,
\* killed it, removed its lock file and exited 0.
C22_Witness ==
    \E s \in Stoppers, q \in Monitors :
        /\ exit_reason[s] = "stopped"
        /\ exit_code[s] = <<0>>
        /\ existing_pid[s] = <<q>>
        /\ pc[q] = "dead"
        /\ rounds[q] > 0
        /\ pidFile = <<>>

-----------------------------------------------------------------------------
(* Claims about the training set and the neighbors (checked under SpecKnn) *)

\* the indices t (counted from 1) of range(5, len - 5) whose closes at t - 5
\* and at t are both positive
ValidAt(c) ==
    {i \in (Horizon + 1)..(Len(c) - Horizon) : c[i - Horizon] > 0 /\ c[i] > 0}

\* how many valid indices come at or before i
Place(c, i) == Cardinality({j \in ValidAt(c) : j <= i})

\* C23: the training set holds one pair for each valid index and none for
\* any other, in the order of the indices; the feature is the trailing
\* return close[t] / close[t-5] - 1 and the label is 1 exactly when
\* close[t+5] > close[t].
C23_TrainingSet ==
    knn.status # "none" =>
        LET P == Pairs(closes)
        IN  /\ Len(P) = Cardinality(ValidAt(closes))
            /\ \A i \in ValidAt(closes) :
                   LET e == P[Place(closes, i)]
                   IN  /\ REq(e.f, <<closes[i] - closes[i - Horizon],
                                     closes[i - Horizon]>>)
                       /\ e.y = IF closes[i + Horizon] > closes[i] THEN 1 ELSE 0

\* C23 witness: a series in which one index is skipped for a non-positive
\* close, one pair has an unchanged price five steps on (label 0) and one a
\* higher price (label 1).
C23_Witness ==
    /\ knn.status = "returned"
    /\ \E i \in (Horizon + 1)..(Len(closes) - Horizon) : i \notin ValidAt(closes)
    /\ \E i \in ValidAt(closes) :
           /\ closes[i + Horizon] = closes[i]
           /\ Pairs(closes)[Place(closes, i)].y = 0
    /\ \E i \in ValidAt(closes) :
           /\ closes[i + Horizon] > closes[i]
           /\ Pairs(closes)[Place(closes, i)].y = 1

\* the estimator returned past the fallback test
OutsideFallback ==
    knn.status = "returned" /\ Cardinality(ValidAt(closes)) >= 50

\* max(10, min(neighbors, total_pairs)), written out
KOf(nb, n) ==
    IF nb <= 10 \/ n <= 10 THEN 10 ELSE IF nb < n THEN nb ELSE n

\* distance of every training pair from the current return
DistOf(P, cur) == [r \in 1..Len(P) |-> Dist(P[r].f, cur)]

\* pair q comes before pair r when sorted by distance, equal distances
\* keeping the chronological order
Before(D, q, r) == RLess(D[q], D[r]) \/ (REq(D[q], D[r]) /\ q < r)

\* the k pairs that come first
Chosen(D, k) ==
    {r \in DOMAIN D : Cardinality({q \in DOMAIN D : Before(D, q, r)}) < k}

\* q brought into [0.01, 0.99]
Bounded(q) ==
    IF RLess(q, <<1, 100>>) THEN <<1, 100>>
    ELSE IF RLess(<<99, 100>>, q) THEN <<99, 100>>
    ELSE q

\* C24: outside the fallback, k = max(10, min(neighbors, total_pairs))
\* satisfies 10 <= k <= total_pairs, exactly k pairs are taken, they are the
\* k nearest to the current return with equal distances in chronological
\* order, and the probability returned is 0.7 times the mean of their labels
\* plus 0.3 times the unconditional rate, brought into [0.01, 0.99].
C24_NearestMean ==
    OutsideFallback =>
        LET P == Pairs(closes)
            n == Len(P)
            k == KOf(neighbors, n)
            C == Chosen(DistOf(P, knn.current_5m_ret), k)
            s == Cardinality({r \in C : P[r].y = 1})
            S == knn.uncond_up_prob[1]
        IN  /\ 10 <= k /\ k <= n
            /\ Cardinality(C) = k
            /\ knn.uncond_up_prob[2] = n
            /\ REq(knn.prob, Bounded(<<7 * s * n + 3 * S * k, 10 * k * n>>))

\* C24 witness: a negative neighbor count gives k = 10, and the cut falls
\* between two pairs at the same distance with different labels.
C24_Witness ==
    /\ OutsideFallback
    /\ neighbors < 0
    /\ LET P == Pairs(closes)
           D == DistOf(P, knn.current_5m_ret)
           C == Chosen(D, 10)
       IN  \E r \in C, q \in DOMAIN D :
               /\ q \notin C
               /\ REq(D[q], D[r])
               /\ P[q].y # P[r].y

\* C25: for every series of fewer than 60 closes the estimator returns the
\* neutral probability 0.5 (it does not raise, and no neighbour is consulted),
\* because at most len - 10 training pairs exist.
C25_ShortSeriesNeutral ==
    (knn.status # "none" /\ Len(closes) < 60) =>
        /\ Cardinality(ValidAt(closes)) < 50
        /\ knn.status = "returned"
        /\ knn.prob = <<1, 2>>

\* C25 witness: 59 positive closes that rise and fall, enough for the
\* fetcher's minimum of 30, and the estimate is 0.5 from 49 pairs.
C25_Witness ==
    /\ knn.status = "returned"
    /\ Len(closes) = 59
    /\ \A i \in 1..59 : closes[i] > 0
    /\ \E i, j \in 1..58 : closes[i + 1] > closes[i] /\ closes[j + 1] < closes[j]
    /\ Cardinality(ValidAt(closes)) = 49
    /\ knn.prob = <<1, 2>>

\* C26: whenever the price list has at least two entries, the up and the down
\* probability are read from two different positions, both valid indices of
\* the price list, whatever the outcome labels are.
C26_DistinctPositions ==
    (qout # NoQuote /\ Len(qin.prices) >= 2) =>
        /\ ~qout.err
        /\ qout.up_idx \in 1..Len(qin.prices)
        /\ qout.down_idx \in 1..Len(qin.prices)
        /\ qout.up_idx # qout.down_idx

\* C27: whenever a monitor is in its polling loop, the lock file exists and
\* holds the pid of a monitor that is in its polling loop.
C27_LockHeldWhileRunning ==
    \A p \in Monitors :
        Running(p) =>
            /\ pidFile # <<>>
            /\ pidFile[1] \in Monitors
            /\ Running(pidFile[1])

\* where a monitor is before it touches the lock file
Startup == {"init", "read_pid", "check_alive"}

\* why a startup failed
Refused == {"config", "credentials", "lock_held"}

\* C28: a startup that fails, by an invalid parameter or by a live owner of
\* the lock, changes nothing: each of its steps leaves the lock file, every
\* log and the orders as they are, it fails from a step before the lock file
\* is touched, and the failed invocation has run no round and logged nothing.
C28_FailedStartupChangesNothing ==
    /\ [][\A p \in Monitors :
            (pc[p] \in Startup /\ pc'[p] # pc[p]) =>
                /\ pidFile' = pidFile
                /\ logBy' = logBy
                /\ orders' = orders]_vars
    /\ [][\A p \in Monitors :
            (exit_reason'[p] \in Refused /\ exit_reason[p] \notin Refused) =>
                /\ pc[p] \in {"init", "check_alive"}
                /\ exit_code'[p] = <<1>>]_vars
    /\ [](\A p \in Monitors :
            exit_reason[p] \in Refused => rounds[p] = 0 /\ logBy[p] = <<>>)

\* C28 witness: a monitor that took over a stale lock is in its loop with a
\* round logged, the lock file names it, and a second monitor has been
\* refused because of it.
C28_Witness ==
    \E p, q \in Monitors :
        /\ Running(p)
        /\ existing_pid[p] # <<>> /\ existing_pid[p][1] \in Former
        /\ rounds[p] >= 1 /\ Len(logBy[p]) >= 1
        /\ pidFile = <<p>>
        /\ exit_reason[q] = "lock_held"
        /\ pc[q] = "exited"

\* C28 witness of the other failure: a monitor is refused for its fee rate
\* while another is in its loop and holds the lock.
C28_ConfigRefused ==
    \E p, q \in Monitors :
        /\ Running(p) /\ pidFile = <<p>> /\ Len(logBy[p]) >= 1
        /\ exit_reason[q] = "config"
        /\ args[q].fee_rate = 0

\* C29: the estimator returns a result without raising for every price series,
\* series with zero or negative closes included.
C29_NeverRaises == knn.status # "raised"

\* C30: with the auto-trade toggle off no order is ever submitted, whatever
\* the signals are, last_trade_ts stays unset for the whole run, and no
\* logged entry carries a trade outcome.
C30_NoTradeWhenOff ==
    (pc[Solo] # "init" /\ ~args[Solo].auto_trade) =>
        /\ orders = <<>>
        /\ last_trade_ts[Solo] = <<>>
        /\ \A i \in 1..Len(logBy[Solo]) :
               /\ logBy[Solo][i].trade = ""
               /\ ~logBy[Solo][i].executed
               /\ ~logBy[Solo][i].order_id

\* C30 witness: with the toggle off two rounds have logged an arbitrage
\* signal, a buy side and a sell side among them, and nothing was ordered.
C30_Witness ==
    /\ ~args[Solo].auto_trade
    /\ pc[Solo] = "after_round"
    /\ rounds[Solo] = 2
    /\ Len(logBy[Solo]) = 2
    /\ logBy[Solo][1].signal = "ARBITRAGE"
    /\ logBy[Solo][2].signal = "ARBITRAGE"
    /\ logBy[Solo][1].best_side # logBy[Solo][2].best_side
    /\ orders = <<>>
    /\ last_trade_ts[Solo] = <<>>

=============================================================================
